---- MODULE Spec2Model ----
(***************************************************************************)
(* Model of the incremental harvesting pipeline of youtube_scraper.py:     *)
(* YouTubeScraper.fetch_and_process_channel_videos with the adapters it    *)
(* calls, the two per-channel cache files it reads and writes, and the     *)
(* termination of the process between any two steps followed by a new run. *)
(*                                                                         *)
(* Counts fixed by the source (50 videos per checkpoint, 50 items per      *)
(* page, 4000 videos per channel, 200 comments per video) are scaled down  *)
(* so that every case of the control flow is reached with few videos; the  *)
(* control flow itself is the source's.                                    *)
(*                                                                         *)
(* Spec, SpecCheckpoint and FairSpec follow main(); SpecExample follows    *)
(* the two calls of example_usage.py. Three callees are also followed on   *)
(* their own, step by step: get_video_comments (SpecComments),             *)
(* get_playlist_videos (SpecPages) and save_data (SpecExport).             *)
(***************************************************************************)
EXTENDS Integers, Sequences, FiniteSets, TLC

\* ------------------------------------------------------------- sizes

\* config.py YOUTUBERS: two channel handles.
NumChannels == 2
\* youtube_scraper.py line 346: "(j + 1) % 50" (scaled).
CheckpointEvery == 2
\* youtube_scraper.py line 137: "min(50, ...)" (scaled).
PageSize == 2
\* config.py MAX_VIDEOS_PER_CHANNEL (scaled).
MAX_VIDEOS_PER_CHANNEL == 5
\* config.py MAX_COMMENTS_PER_VIDEO (scaled).
MAX_COMMENTS_PER_VIDEO == 1

\* youtube_scraper.py line 369: "%Y%m%d_%H%M%S" names a file to the second; the
\* clock is finer (scaled: two ticks to the second).
TicksPerSecond == 2

\* Bounds of the model.
MaxClock == 3        \* ticks the clock advances
MaxSaves == 2        \* calls of save_data
MaxUploads == 4      \* videos the provider lists, all channels together
MaxLong == 6         \* videos of the one long channel of SpecCheckpoint
MaxStream == 2       \* comments a provider stream offers
MaxRuns == 2         \* runs of the harvester
MaxFaults == 1       \* provider and storage outcomes other than plain success, all runs

Channels == 1..NumChannels

\* config.py YOUTUBERS: the configured handles, in order (a channel is its index).
YOUTUBERS == [c \in Channels |-> c]

\* example_usage.py: the arguments of its two calls (50 and 500, 10 and 100; scaled).
ExampleCustomMaxVideos == 3
ExampleCustomMaxComments == 2
ExampleSingleMaxVideos == 1
ExampleSingleMaxComments == 1

Min(a, b) == IF a < b THEN a ELSE b

\* The k-th upload of channel c; identifiers are unique across channels.
VideoId(c, k) == c * 10 + k
ChannelOf(v) == v \div 10

\* ------------------------------------------------------------- values

\* Python's None where a value is optional, and the state of a local that this
\* iteration has not assigned yet; each variable keeps one type of value.
None == "None"            \* transcript: get_video_transcript returned None
Unset == "unset"          \* transcript: not fetched yet
TranscriptText == "text"
NoPlaylist == 0           \* playlist_id: None (no channel has index 0)
NoVideos == <<0>>         \* videos: None (0 is no video identifier)
NoDetails == 0            \* video_details: None
UnsetDetails == -1        \* video_details: not fetched yet
UnsetComments == <<-1>>   \* comments: not fetched yet

\* A cache file on disk: absent, present and loadable, or present and
\* unreadable (truncated by an interrupted or failed write).
Absent == [state |-> "absent", data |-> <<>>]
Loadable(d) == [state |-> "ok", data |-> d]
\* The bytes of an unreadable file decode to no record; Garbage stands for them.
Garbage == [channel_handle |-> 0, video_id |-> 0, details |-> UnsetDetails,
            transcript |-> Unset, comments |-> UnsetComments]
Truncated == [state |-> "corrupt", data |-> <<Garbage>>]
TruncatedList == [state |-> "corrupt", data |-> <<0>>]

\* The comment stream of a video: it offers `offer` comments (Endless: it
\* never runs out) and raises when the failAt-th is pulled (0: never).
Endless == -1
NoStream == [offer |-> 0, failAt |-> 0]

\* A continuation token is the offset the listing was read to; None is 0,
\* which is the offset of no continuation.
NoToken == 0

NoInterrupt == 0        \* interrupted: the previous run was not cut in an enrichment
NoCache == [processed |-> [c \in Channels |-> Absent],
            discovery |-> [c \in Channels |-> Absent]]

VARIABLES
    uploads,                \* provider: channel -> its uploads listing
    cache_file,             \* disk: channel -> processed cache (<handle>_videos.pkl)
    video_list_cache_file,  \* disk: channel -> discovery cache (<handle>_videos_list.json)
    runs,                   \* runs started so far
    pc,                     \* position of the process in fetch_and_process_channel_videos
    i,                      \* channel index of the outer loop (1-based; 0 before the loop)
    all_videos_data,
    playlist_id,
    videos,
    j,                      \* stub index of the inner loop (1-based, Python's j + 1)
    channel_videos_data,
    video_details,
    transcript,
    comments,
    calls,                  \* history: adapter calls issued in this run, with their outcome
    writes,                 \* history: cache writes attempted for the current channel
    assembled,              \* history: records assembled in this run
    startCache,             \* history: the two cache files as the run found them
    interrupted,            \* history: the channel the previous run was enriching
                            \* when it was terminated
    faults,                 \* environment: outcomes other than plain success so far
    channel_handles,        \* argument of the call: the channels to harvest, in order
    max_videos_per_channel, \* argument of the call
    max_comments_per_video, \* argument of the call
    max_comments,           \* get_video_comments: its argument
    comment_generator,      \* get_video_comments: the provider's lazy comment stream
    max_results,            \* get_playlist_videos: its argument
    next_page_token,        \* get_playlist_videos: the continuation token held
    requests,               \* history: the page requests of the call, with their answers
    output_dir,             \* disk: the exported files
    now,                    \* the clock datetime.now() reads, in ticks
    saves,                  \* history: the calls of save_data, with what each wrote
    cache_dir,              \* sharded harvest: the cache directory, file name -> file
    workers                 \* sharded harvest: each worker's position and locals

vars == <<uploads, cache_file, video_list_cache_file, runs, pc, i, all_videos_data,
          playlist_id, videos, j, channel_videos_data, video_details, transcript,
          comments, calls, writes, assembled, startCache, interrupted, faults,
          channel_handles, max_videos_per_channel, max_comments_per_video,
          max_comments, comment_generator, max_results, next_page_token, requests,
          output_dir, now, saves, cache_dir, workers>>

disk == <<cache_file, video_list_cache_file>>
videoLocals == <<video_details, transcript, comments>>
channelLocals == <<playlist_id, videos, j, channel_videos_data>>
history == <<calls, writes, assembled, startCache, interrupted>>
args == <<channel_handles, max_videos_per_channel, max_comments_per_video>>
commentStream == <<max_comments, comment_generator>>
pagination == <<max_results, next_page_token, requests>>
export == <<output_dir, now, saves>>
sharding == <<cache_dir, workers>>
callees == <<commentStream, pagination, export, sharding>>

\* ------------------------------------------------------------- helpers

\* The environment takes an outcome: plain success always, another one while
\* the model's budget of them lasts.
Outcome(plain) ==
    /\ plain \/ faults < MaxFaults
    /\ faults' = IF plain THEN faults ELSE faults + 1

Call(kind, target, ok) == [kind |-> kind, target |-> target, ok |-> ok]
Write(file, pos, stubs, data, ok) ==
    [file |-> file, pos |-> pos, stubs |-> stubs, data |-> data, ok |-> ok]

\* The provider's listings: channel c lists VideoId(c, 1), VideoId(c, 2), ...
Listing(c, n) == [k \in 1..n |-> VideoId(c, k)]

\* ------------------------------------------------------------- adapters

\* get_playlist_videos (lines 129-151). The page token is the offset reached;
\* failPage is the page whose request raises (0: none does).
RECURSIVE PlaylistPages(_, _, _, _, _)
PlaylistPages(listing, target, failPage, vids, page) ==
    IF ~(Len(vids) < target) THEN vids
    ELSE IF page = failPage THEN vids
    ELSE LET maxResults == Min(PageSize, target - Len(vids))
             last == Min(Len(listing), Len(vids) + maxResults)
             items == SubSeq(listing, Len(vids) + 1, last)
             token == IF last < Len(listing) THEN last ELSE 0
         IN  IF token = 0 THEN vids \o items
             ELSE PlaylistPages(listing, target, failPage, vids \o items, page + 1)

get_playlist_videos(listing, target, failPage) ==
    PlaylistPages(listing, target, failPage, <<>>, 1)

\* get_video_comments (lines 205-237): islice(comment_generator, max_comments);
\* the stream offers streamLen comments and raises when the failAt-th is pulled
\* (0: never). A comment is modelled by its position in the stream.
get_video_comments(streamLen, limit, failAt) ==
    LET n == Min(streamLen, limit)
        m == IF failAt # 0 /\ failAt <= n THEN failAt - 1 ELSE n
    IN  [k \in 1..m |-> k]

\* The record of lines 327-341.
VideoData(channel_handle, video_id, details, tr, cs) ==
    [channel_handle |-> channel_handle, video_id |-> video_id, details |-> details,
     transcript |-> tr, comments |-> cs]

\* Mutant of CheckpointDue: the write at the last stub is forgotten.
CheckpointDue_NoFinal(jj, n) == jj % CheckpointEvery = 0

\* Line 346: j here is Python's j + 1.
CheckpointDue(jj, n) == (jj % CheckpointEvery = 0) \/ (jj = n)

\* ------------------------------------------------------------- Init

UploadCounts == {f \in [Channels -> 0..MaxUploads] :
                    f[1] + f[2] <= MaxUploads}

\* After __init__ (lines 53-62) on a machine that never ran the harvester: the
\* cache directory is empty and no run has started.
Blank ==
    /\ cache_file = [c \in Channels |-> Absent]
    /\ video_list_cache_file = [c \in Channels |-> Absent]
    /\ runs = 0
    /\ i = 0
    /\ j = 0
    /\ channel_videos_data = <<>>
    /\ video_details = UnsetDetails
    /\ transcript = Unset
    /\ calls = {}
    /\ writes = <<>>
    /\ assembled = {}
    /\ startCache = NoCache
    /\ interrupted = NoInterrupt
    /\ faults = 0
    /\ channel_handles = <<>>
    /\ max_videos_per_channel = 0
    /\ max_comments_per_video = 0

\* No call of get_video_comments is being followed on its own.
NoCommentStream ==
    /\ max_comments = 0
    /\ comment_generator = NoStream

\* No call of get_playlist_videos is being followed on its own.
NoPagination ==
    /\ max_results = 0
    /\ next_page_token = NoToken
    /\ requests = <<>>

\* Nothing was exported.
NoExport ==
    /\ output_dir = {}
    /\ now = 0
    /\ saves = <<>>

\* No channel is harvested by a worker of its own.
NoSharding ==
    /\ cache_dir = <<>>
    /\ workers = <<>>

Fresh ==
    /\ Blank
    /\ pc = "stopped"
    /\ all_videos_data = <<>>
    /\ playlist_id = NoPlaylist
    /\ videos = NoVideos
    /\ comments = UnsetComments
    /\ NoCommentStream
    /\ NoPagination
    /\ NoExport
    /\ NoSharding

Init ==
    /\ \E f \in UploadCounts : uploads = [c \in Channels |-> Listing(c, f[c])]
    /\ Fresh

\* One channel with a long listing, the others empty.
InitCheckpoint ==
    /\ \E n \in 0..MaxLong :
          uploads = [c \in Channels |-> IF c = 1 THEN Listing(c, n) ELSE <<>>]
    /\ Fresh

\* ------------------------------------------------------------- the run

\* Lines 239-257: a call of fetch_and_process_channel_videos binds its arguments
\* and starts with an empty result. The handle lists passed are prefixes of
\* YOUTUBERS, so that the channel at index i is channel i.
Invoke(handles, max_videos, comments_limit) ==
    /\ runs < MaxRuns
    /\ runs' = runs + 1
    /\ channel_handles' = handles
    /\ max_videos_per_channel' = max_videos
    /\ max_comments_per_video' = comments_limit
    /\ pc' = "loop"
    /\ i' = 0
    /\ all_videos_data' = <<>>
    /\ playlist_id' = NoPlaylist
    /\ videos' = NoVideos
    /\ j' = 0
    /\ channel_videos_data' = <<>>
    /\ calls' = {}
    /\ writes' = <<>>
    /\ assembled' = {}
    /\ startCache' = [processed |-> cache_file, discovery |-> video_list_cache_file]
    /\ interrupted' = IF pc = "done" THEN NoInterrupt ELSE interrupted
    /\ UNCHANGED <<uploads, callees, faults, disk, videoLocals>>

\* main() (lines 436-444): a new process calls fetch_and_process_channel_videos
\* with the settings of config.py.
StartRun ==
    /\ pc \in {"stopped", "done"}
    /\ Invoke(YOUTUBERS, MAX_VIDEOS_PER_CHANNEL, MAX_COMMENTS_PER_VIDEO)

\* example_usage.py lines 15-47: the first call of the script, at its start.
example_custom_scraping ==
    /\ \/ pc = "stopped"
       \/ pc = "done" /\ channel_handles = SubSeq(YOUTUBERS, 1, 1)
    /\ Invoke(YOUTUBERS, ExampleCustomMaxVideos, ExampleCustomMaxComments)

\* example_usage.py lines 49-73: the second call of the script, after the
\* first one returned.
example_single_channel ==
    /\ pc = "done"
    /\ channel_handles = YOUTUBERS
    /\ Invoke(SubSeq(YOUTUBERS, 1, 1), ExampleSingleMaxVideos, ExampleSingleMaxComments)

\* Line 259: the next channel of the list.
NextChannel ==
    /\ pc = "loop"
    /\ i < Len(channel_handles)
    /\ i' = i + 1
    /\ pc' = "check_processed"
    /\ writes' = <<>>
    /\ UNCHANGED <<uploads, callees, args, faults, disk, runs, all_videos_data, channelLocals, videoLocals,
                   calls, assembled, startCache, interrupted>>

\* Line 359: return all_videos_data.
Return ==
    /\ pc = "loop"
    /\ i = Len(channel_handles)
    /\ pc' = "done"
    /\ UNCHANGED <<uploads, callees, args, faults, disk, runs, i, all_videos_data, channelLocals, videoLocals,
                   history>>

\* Mutant of CheckProcessedCache: whatever the file holds is taken as the
\* channel's records, a file that does not load included.
CheckProcessedCache_TrustFile ==
    /\ pc = "check_processed"
    /\ IF cache_file[i].state # "absent"
       THEN /\ all_videos_data' = all_videos_data \o cache_file[i].data
            /\ pc' = "loop"
       ELSE /\ pc' = "resolve_uploads"
            /\ UNCHANGED all_videos_data
    /\ UNCHANGED <<uploads, callees, args, faults, disk, runs, i, channelLocals, videoLocals, history>>

\* Mutant of CheckProcessedCache: the cached records are taken and the `continue`
\* of line 273 is missing.
CheckProcessedCache_NoContinue ==
    /\ pc = "check_processed"
    /\ IF cache_file[i].state = "ok"
       THEN all_videos_data' = all_videos_data \o cache_file[i].data
       ELSE UNCHANGED all_videos_data
    /\ pc' = "resolve_uploads"
    /\ UNCHANGED <<uploads, callees, args, faults, disk, runs, i, channelLocals, videoLocals, history>>

\* Lines 266-275: the processed cache short-circuits the channel.
CheckProcessedCache ==
    /\ pc = "check_processed"
    /\ IF cache_file[i].state = "ok"
       THEN /\ all_videos_data' = all_videos_data \o cache_file[i].data
            /\ pc' = "loop"
       ELSE /\ pc' = "resolve_uploads"
            /\ UNCHANGED all_videos_data
    /\ UNCHANGED <<uploads, callees, args, faults, disk, runs, i, channelLocals, videoLocals, history>>

\* Mutant of ResolveUploads: the request error is not caught (no try/except in
\* get_channel_upload_playlist) and leaves fetch_and_process_channel_videos.
ResolveUploads_Raise ==
    /\ pc = "resolve_uploads"
    /\ \E outcome \in {"found", "not_found", "error"} :
         /\ Outcome(outcome = "found")
         /\ calls' = calls \cup {Call("uploads", i, outcome = "found")}
         /\ playlist_id' = IF outcome = "found" THEN i ELSE NoPlaylist
         /\ pc' = CASE outcome = "found" -> "check_discovery"
                    [] outcome = "not_found" -> "loop"
                    [] OTHER -> "raised"
    /\ UNCHANGED <<uploads, callees, args, disk, runs, i, all_videos_data, videos, j,
                   channel_videos_data, videoLocals, writes, assembled, startCache,
                   interrupted>>

\* Mutant of ResolveUploads: a channel without uploads reference ends the outer
\* loop (break, or return) instead of continuing with the next channel.
ResolveUploads_Break ==
    /\ pc = "resolve_uploads"
    /\ \E outcome \in {"found", "not_found", "error"} :
         /\ Outcome(outcome = "found")
         /\ calls' = calls \cup {Call("uploads", i, outcome = "found")}
         /\ playlist_id' = IF outcome = "found" THEN i ELSE NoPlaylist
         /\ pc' = IF outcome = "found" THEN "check_discovery" ELSE "done"
    /\ UNCHANGED <<uploads, callees, args, disk, runs, i, all_videos_data, videos, j,
                   channel_videos_data, videoLocals, writes, assembled, startCache,
                   interrupted>>

\* Lines 277-283 with get_channel_upload_playlist (lines 99-116): the uploads
\* reference, or None when the channel is not found or the request raises.
ResolveUploads ==
    /\ pc = "resolve_uploads"
    /\ \E outcome \in {"found", "not_found", "error"} :
         /\ Outcome(outcome = "found")
         /\ calls' = calls \cup {Call("uploads", i, outcome = "found")}
         /\ IF outcome = "found"
            THEN /\ playlist_id' = i
                 /\ pc' = "check_discovery"
            ELSE /\ playlist_id' = NoPlaylist
                 /\ pc' = "loop"
    /\ UNCHANGED <<uploads, callees, args, disk, runs, i, all_videos_data, videos, j,
                   channel_videos_data, videoLocals, writes, assembled, startCache,
                   interrupted>>

\* Mutant of CheckDiscoveryCache: the listing is fetched whether or not a
\* cached stub list loads.
CheckDiscoveryCache_AlwaysFetch ==
    /\ pc = "check_discovery"
    /\ videos' = NoVideos
    /\ pc' = "paginate"
    /\ j' = 0
    /\ channel_videos_data' = <<>>
    /\ UNCHANGED <<uploads, callees, args, faults, disk, runs, i, all_videos_data, playlist_id,
                   videoLocals, history>>

\* Lines 285-293 and 305-308: the cached stub list, when it loads.
CheckDiscoveryCache ==
    /\ pc = "check_discovery"
    /\ IF video_list_cache_file[i].state = "ok"
       THEN /\ videos' = video_list_cache_file[i].data
            /\ pc' = "video_loop"
       ELSE /\ videos' = NoVideos
            /\ pc' = "paginate"
    /\ j' = 0
    /\ channel_videos_data' = <<>>
    /\ UNCHANGED <<uploads, callees, args, faults, disk, runs, i, all_videos_data, playlist_id, videoLocals,
                   history>>

\* Lines 296-298: the stub list from the provider.
Paginate ==
    /\ pc = "paginate"
    /\ \E failPage \in 0..(max_videos_per_channel \div PageSize) :
         /\ Outcome(failPage = 0)
         /\ videos' = get_playlist_videos(uploads[playlist_id], max_videos_per_channel,
                                          failPage)
         /\ calls' = calls \cup {Call("listing", i, failPage = 0)}
    /\ pc' = "open_discovery"
    /\ UNCHANGED <<uploads, callees, args, disk, runs, i, all_videos_data, playlist_id, j,
                   channel_videos_data, videoLocals, writes, assembled, startCache,
                   interrupted>>

\* Mutant of OpenDiscoveryCache: a stub list that a failed page request cut
\* short is not written, the channel is enriched from it all the same.
OpenDiscoveryCache_OnlyComplete ==
    /\ pc = "open_discovery"
    /\ IF Call("listing", i, FALSE) \in calls
       THEN /\ pc' = "video_loop"
            /\ UNCHANGED <<faults, video_list_cache_file, writes>>
       ELSE \E ok \in BOOLEAN :
              /\ Outcome(ok)
              /\ IF ok
                 THEN /\ video_list_cache_file' =
                            [video_list_cache_file EXCEPT ![i] = TruncatedList]
                      /\ pc' = "dump_discovery"
                      /\ UNCHANGED writes
                 ELSE /\ writes' = Append(writes, Write("discovery", 0, videos, <<>>, FALSE))
                      /\ pc' = "video_loop"
                      /\ UNCHANGED video_list_cache_file
    /\ UNCHANGED <<uploads, callees, args, cache_file, runs, i, all_videos_data, channelLocals,
                   videoLocals, calls, assembled, startCache, interrupted>>

\* Line 300: open(video_list_cache_file, 'w') truncates the file, or raises.
OpenDiscoveryCache ==
    /\ pc = "open_discovery"
    /\ \E ok \in BOOLEAN :
         /\ Outcome(ok)
         /\ IF ok
            THEN /\ video_list_cache_file' =
                       [video_list_cache_file EXCEPT ![i] = TruncatedList]
                 /\ pc' = "dump_discovery"
                 /\ UNCHANGED writes
            ELSE /\ writes' = Append(writes, Write("discovery", 0, videos, <<>>, FALSE))
                 /\ pc' = "video_loop"
                 /\ UNCHANGED video_list_cache_file
    /\ UNCHANGED <<uploads, callees, args, cache_file, runs, i, all_videos_data, channelLocals,
                   videoLocals, calls, assembled, startCache, interrupted>>

\* Lines 301-304: json.dump completes, or raises leaving a partial document.
DumpDiscoveryCache ==
    /\ pc = "dump_discovery"
    /\ \E ok \in BOOLEAN :
         /\ Outcome(ok)
         /\ video_list_cache_file' =
               [video_list_cache_file EXCEPT
                  ![i] = IF ok THEN Loadable(videos) ELSE TruncatedList]
         /\ writes' = Append(writes, Write("discovery", 0, videos, <<>>, ok))
    /\ pc' = "video_loop"
    /\ UNCHANGED <<uploads, callees, args, cache_file, runs, i, all_videos_data, channelLocals,
                   videoLocals, calls, assembled, startCache, interrupted>>

\* Line 310: the next stub, or the end of the channel's loop. The pacing delay
\* of line 355 is spent in this position.
NextVideo ==
    /\ pc = "video_loop"
    /\ IF j < Len(videos)
       THEN /\ j' = j + 1
            /\ pc' = "details"
       ELSE /\ pc' = "extend"
            /\ UNCHANGED j
    /\ video_details' = UnsetDetails
    /\ transcript' = Unset
    /\ comments' = UnsetComments
    /\ UNCHANGED <<uploads, callees, args, faults, disk, runs, i, all_videos_data, playlist_id, videos,
                   channel_videos_data, history>>

\* Mutant of GetVideoDetails: the `continue` of line 317 is missing, a stub
\* without metadata is enriched like the others.
GetVideoDetails_NoSkip ==
    /\ pc = "details"
    /\ \E outcome \in {"found", "not_found", "error"} :
         /\ Outcome(outcome = "found")
         /\ calls' = calls \cup {Call("details", videos[j], outcome = "found")}
         /\ video_details' = IF outcome = "found" THEN videos[j] ELSE NoDetails
    /\ pc' = "transcript"
    /\ UNCHANGED <<uploads, callees, args, disk, runs, i, all_videos_data, channelLocals, transcript,
                   comments, writes, assembled, startCache, interrupted>>

\* Lines 315-317 with get_video_details (lines 163-174): None skips the stub.
GetVideoDetails ==
    /\ pc = "details"
    /\ \E outcome \in {"found", "not_found", "error"} :
         /\ Outcome(outcome = "found")
         /\ calls' = calls \cup {Call("details", videos[j], outcome = "found")}
         /\ IF outcome = "found"
            THEN /\ video_details' = videos[j]
                 /\ pc' = "transcript"
            ELSE /\ video_details' = NoDetails
                 /\ pc' = "video_loop"
    /\ UNCHANGED <<uploads, callees, args, disk, runs, i, all_videos_data, channelLocals, transcript,
                   comments, writes, assembled, startCache, interrupted>>

\* Mutant of GetVideoTranscript: a video without transcript is skipped, like a
\* video without metadata.
GetVideoTranscript_SkipsVideo ==
    /\ pc = "transcript"
    /\ \E t \in {TranscriptText, None} :
         /\ Outcome(t # None)
         /\ transcript' = t
         /\ calls' = calls \cup {Call("transcript", videos[j], t # None)}
         /\ pc' = IF t # None THEN "comments" ELSE "video_loop"
    /\ UNCHANGED <<uploads, callees, args, disk, runs, i, all_videos_data, channelLocals,
                   video_details, comments, writes, assembled, startCache, interrupted>>

\* Line 320 with get_video_transcript (lines 186-192): the text, or None when
\* the transcript provider raises (no transcript, or any other error).
GetVideoTranscript ==
    /\ pc = "transcript"
    /\ \E t \in {TranscriptText, None} :
         /\ Outcome(t # None)
         /\ transcript' = t
         /\ calls' = calls \cup {Call("transcript", videos[j], t # None)}
    /\ pc' = "comments"
    /\ UNCHANGED <<uploads, callees, args, disk, runs, i, all_videos_data, channelLocals,
                   video_details, comments, writes, assembled, startCache, interrupted>>

\* Line 323 with get_video_comments.
GetVideoComments ==
    /\ pc = "comments"
    /\ \E streamLen \in 0..MaxStream, failAt \in 0..MaxStream :
         /\ Outcome(streamLen >= max_comments_per_video /\ failAt = 0)
         /\ comments' = get_video_comments(streamLen, max_comments_per_video, failAt)
         /\ calls' = calls \cup {Call("comments", videos[j], TRUE)}
    /\ pc' = "assemble"
    /\ UNCHANGED <<uploads, callees, args, disk, runs, i, all_videos_data, channelLocals,
                   video_details, transcript, writes, assembled, startCache,
                   interrupted>>

\* Lines 326-346: the record is built and appended; the checkpoint is due or not.
AssembleRecord ==
    /\ pc = "assemble"
    /\ LET video_data == VideoData(i, videos[j], video_details, transcript, comments)
       IN  /\ channel_videos_data' = Append(channel_videos_data, video_data)
           /\ assembled' = assembled \cup {video_data}
    /\ pc' = IF CheckpointDue(j, Len(videos)) THEN "open_processed" ELSE "video_loop"
    /\ UNCHANGED <<uploads, callees, args, faults, disk, runs, i, all_videos_data, playlist_id, videos, j,
                   videoLocals, calls, writes, startCache, interrupted>>

\* Line 348: open(cache_file, 'wb') truncates the file, or raises.
OpenProcessedCache ==
    /\ pc = "open_processed"
    /\ \E ok \in BOOLEAN :
         /\ Outcome(ok)
         /\ IF ok
            THEN /\ cache_file' = [cache_file EXCEPT ![i] = Truncated]
                 /\ pc' = "dump_processed"
                 /\ UNCHANGED writes
            ELSE /\ writes' = Append(writes, Write("processed", j, <<>>, channel_videos_data, FALSE))
                 /\ pc' = "video_loop"
                 /\ UNCHANGED cache_file
    /\ UNCHANGED <<uploads, callees, args, video_list_cache_file, runs, i, all_videos_data,
                   channelLocals, videoLocals, calls, assembled, startCache,
                   interrupted>>

\* Mutant of DumpProcessedCache: a dump that raises leaves a file that still
\* loads, its last record cut before the comments.
DumpProcessedCache_Partial ==
    /\ pc = "dump_processed"
    /\ \E ok \in BOOLEAN :
         /\ Outcome(ok)
         /\ cache_file' =
               [cache_file EXCEPT
                  ![i] = IF ok THEN Loadable(channel_videos_data)
                         ELSE Loadable([channel_videos_data EXCEPT
                                  ![Len(channel_videos_data)].comments = UnsetComments])]
         /\ writes' = Append(writes, Write("processed", j, <<>>, channel_videos_data, ok))
    /\ pc' = "video_loop"
    /\ UNCHANGED <<uploads, callees, args, video_list_cache_file, runs, i, all_videos_data,
                   channelLocals, videoLocals, calls, assembled, startCache,
                   interrupted>>

\* Lines 349-352: pickle.dump completes, or raises leaving a partial file.
DumpProcessedCache ==
    /\ pc = "dump_processed"
    /\ \E ok \in BOOLEAN :
         /\ Outcome(ok)
         /\ cache_file' =
               [cache_file EXCEPT ![i] = IF ok THEN Loadable(channel_videos_data)
                                              ELSE Truncated]
         /\ writes' = Append(writes, Write("processed", j, <<>>, channel_videos_data, ok))
    /\ pc' = "video_loop"
    /\ UNCHANGED <<uploads, callees, args, video_list_cache_file, runs, i, all_videos_data,
                   channelLocals, videoLocals, calls, assembled, startCache,
                   interrupted>>

\* Line 357: the channel's records join the result.
ExtendResult ==
    /\ pc = "extend"
    /\ all_videos_data' = all_videos_data \o channel_videos_data
    /\ pc' = "loop"
    /\ UNCHANGED <<uploads, callees, args, faults, disk, runs, i, channelLocals, videoLocals, history>>

\* The process is terminated (the only cancellation there is); the files stay
\* as they are, everything in memory is lost.
Enriching ==
    pc \in {"video_loop", "details", "transcript", "comments", "assemble",
            "open_processed", "dump_processed"}

Terminate ==
    /\ pc \notin {"stopped", "done"}
    /\ pc' = "stopped"
    /\ interrupted' = IF Enriching THEN i ELSE NoInterrupt
    /\ i' = 0
    /\ all_videos_data' = <<>>
    /\ playlist_id' = NoPlaylist
    /\ videos' = NoVideos
    /\ j' = 0
    /\ channel_videos_data' = <<>>
    /\ video_details' = UnsetDetails
    /\ transcript' = Unset
    /\ comments' = UnsetComments
    /\ calls' = {}
    /\ writes' = <<>>
    /\ assembled' = {}
    /\ startCache' = NoCache
    /\ channel_handles' = <<>>
    /\ max_videos_per_channel' = 0
    /\ max_comments_per_video' = 0
    /\ UNCHANGED <<uploads, callees, faults, disk, runs>>

Next ==
    \/ StartRun
    \/ NextChannel
    \/ Return
    \/ CheckProcessedCache
    \/ ResolveUploads
    \/ CheckDiscoveryCache
    \/ Paginate
    \/ OpenDiscoveryCache
    \/ DumpDiscoveryCache
    \/ NextVideo
    \/ GetVideoDetails
    \/ GetVideoTranscript
    \/ GetVideoComments
    \/ AssembleRecord
    \/ OpenProcessedCache
    \/ DumpProcessedCache
    \/ ExtendResult
    \/ Terminate

Spec == Init /\ [][Next]_vars

SpecCheckpoint == InitCheckpoint /\ [][Next]_vars

\* A process that is not terminated keeps executing: every step of the run
\* returns (the adapters and the file operations are blocking calls that end).
Step ==
    \/ NextChannel \/ Return \/ CheckProcessedCache \/ ResolveUploads
    \/ CheckDiscoveryCache \/ Paginate \/ OpenDiscoveryCache \/ DumpDiscoveryCache
    \/ NextVideo \/ GetVideoDetails \/ GetVideoTranscript \/ GetVideoComments
    \/ AssembleRecord \/ OpenProcessedCache \/ DumpProcessedCache \/ ExtendResult

FairSpec == Spec /\ WF_vars(Step)

\* example_usage.py run as the script: its two calls, on the cache directory
\* the harvester uses.
NextExample ==
    \/ example_custom_scraping
    \/ example_single_channel
    \/ Step
    \/ Terminate

SpecExample == Init /\ [][NextExample]_vars

\* ------------------------------------------------------------- get_video_comments
\* The call of line 323 followed pull by pull. The comment pulled n-th is
\* comment n of the stream; comment_data (lines 219-228) keeps its identity.

\* The harvest variables other than the call's own are at rest.
Aside ==
    /\ Blank
    /\ all_videos_data = <<>>

\* Lines 205-214: the list is empty and the generator is created; nothing is
\* pulled yet.
InitComments ==
    /\ Aside
    /\ NoPagination
    /\ NoExport
    /\ NoSharding
    /\ uploads = [c \in Channels |-> <<>>]
    /\ playlist_id = NoPlaylist
    /\ videos = NoVideos
    /\ pc = "islice"
    /\ comments = <<>>
    /\ max_comments \in 0..(MaxStream + 1)
    /\ comment_generator \in [offer : {Endless} \cup 0..MaxStream,
                               failAt : 0..(MaxStream + 1)]

harvest == <<uploads, disk, runs, i, all_videos_data, playlist_id, j,
             channel_videos_data, video_details, transcript, history, faults, args,
             export, sharding>>

\* Mutant of PullComment: the generator is iterated without islice, to its end.
PullComment_NoSlice ==
    /\ pc = "islice"
    /\ LET n == Len(comments) + 1
       IN  IF comment_generator.failAt = n
           THEN /\ pc' = "comments_except"
                /\ UNCHANGED comments
           ELSE IF comment_generator.offer # Endless /\ n > comment_generator.offer
           THEN /\ pc' = "comments_return"
                /\ UNCHANGED comments
           ELSE /\ comments' = Append(comments, n)
                /\ UNCHANGED pc
    /\ UNCHANGED <<harvest, videos, commentStream, pagination>>

\* Lines 217-232: islice pulls the next comment while fewer than max_comments
\* were pulled; the stream yields it, is exhausted, or raises.
PullComment ==
    /\ pc = "islice"
    /\ Len(comments) < max_comments
    /\ LET n == Len(comments) + 1
       IN  IF comment_generator.failAt = n
           THEN /\ pc' = "comments_except"
                /\ UNCHANGED comments
           ELSE IF comment_generator.offer # Endless /\ n > comment_generator.offer
           THEN /\ pc' = "comments_return"
                /\ UNCHANGED comments
           ELSE /\ comments' = Append(comments, n)
                /\ UNCHANGED pc
    /\ UNCHANGED <<harvest, videos, commentStream, pagination>>

\* Line 217: islice stops after max_comments items without pulling another.
SliceExhausted ==
    /\ pc = "islice"
    /\ ~(Len(comments) < max_comments)
    /\ pc' = "comments_return"
    /\ UNCHANGED <<harvest, videos, commentStream, pagination, comments>>

\* Mutant of CommentsExcept: the handler gives up what was pulled, the call
\* returns an empty list.
CommentsExcept_ClearsComments ==
    /\ pc = "comments_except"
    /\ pc' = "comments_return"
    /\ comments' = <<>>
    /\ UNCHANGED <<harvest, videos, commentStream, pagination>>

\* Lines 234-235: the exception is logged; line 237 returns what was pulled.
CommentsExcept ==
    /\ pc = "comments_except"
    /\ pc' = "comments_return"
    /\ UNCHANGED <<harvest, videos, commentStream, pagination, comments>>

NextComments == PullComment \/ SliceExhausted \/ CommentsExcept

SpecComments == InitComments /\ [][NextComments]_vars

\* The harvest with the call of line 323 followed pull by pull, run by
\* example_usage.py (whose first call allows more than one comment per video).

\* Line 323 enters get_video_comments (lines 205-214): the list is empty, the
\* generator is created for the video; the provider's stream is any.
CallGetVideoComments ==
    /\ pc = "comments"
    /\ \E stream \in [offer : {Endless} \cup 0..MaxStream, failAt : 0..(MaxStream + 1)] :
         /\ Outcome(stream.failAt = 0
                      /\ (stream.offer = Endless \/ stream.offer >= max_comments_per_video))
         /\ comment_generator' = stream
    /\ max_comments' = max_comments_per_video
    /\ comments' = <<>>
    /\ calls' = calls \cup {Call("comments", videos[j], TRUE)}
    /\ pc' = "islice"
    /\ UNCHANGED <<uploads, pagination, export, sharding, args, disk, runs, i,
                   all_videos_data, channelLocals, video_details, transcript, writes,
                   assembled, startCache, interrupted>>

\* Line 237 returns to line 323: the list is the video's comments.
ReturnVideoComments ==
    /\ pc = "comments_return"
    /\ j > 0
    /\ pc' = "assemble"
    /\ UNCHANGED <<harvest, videos, commentStream, pagination, comments>>

StepPulling ==
    \/ NextChannel \/ Return \/ CheckProcessedCache \/ ResolveUploads
    \/ CheckDiscoveryCache \/ Paginate \/ OpenDiscoveryCache \/ DumpDiscoveryCache
    \/ NextVideo \/ GetVideoDetails \/ GetVideoTranscript
    \/ CallGetVideoComments \/ PullComment \/ SliceExhausted \/ CommentsExcept
    \/ ReturnVideoComments
    \/ AssembleRecord \/ OpenProcessedCache \/ DumpProcessedCache \/ ExtendResult

NextPulling ==
    \/ example_custom_scraping
    \/ example_single_channel
    \/ StepPulling

SpecPulling == Init /\ [][NextPulling]_vars

\* ------------------------------------------------------------- get_playlist_videos
\* The call of line 298 followed request by request, against a provider that
\* answers each request with at most the number of items asked for.

PageRequestOf(maxResults, pageToken, ok, items) ==
    [maxResults |-> maxResults, pageToken |-> pageToken, ok |-> ok, items |-> items]

\* Lines 129-130: the list is empty and there is no token.
InitPages ==
    /\ Aside
    /\ NoCommentStream
    /\ NoExport
    /\ NoSharding
    /\ comments = UnsetComments
    /\ \E n \in 0..MaxLong :
          uploads = [c \in Channels |-> IF c = 1 THEN Listing(c, n) ELSE <<>>]
    /\ playlist_id = 1
    /\ pc = "page_request"
    /\ videos = <<>>
    /\ max_results \in 0..(MaxLong + 1)
    /\ next_page_token = NoToken
    /\ requests = <<>>

pageFrame == <<uploads, disk, runs, i, all_videos_data, playlist_id, j,
               channel_videos_data, videoLocals, history, faults, args,
               commentStream, export, sharding, max_results>>

\* Mutant of PageRequest: every request asks for a whole page.
PageRequest_WholePage ==
    /\ pc = "page_request"
    /\ Len(videos) < max_results
    /\ LET maxResults == PageSize
           listing == uploads[playlist_id]
           left == Len(listing) - next_page_token
       IN  \/ /\ requests' = Append(requests,
                      PageRequestOf(maxResults, next_page_token, FALSE, <<>>))
              /\ pc' = "page_except"
              /\ UNCHANGED <<videos, next_page_token>>
           \/ \E k \in (IF left = 0 THEN 0 ELSE 1)..Min(maxResults, left) :
                LET items == SubSeq(listing, next_page_token + 1, next_page_token + k)
                    token == IF next_page_token + k < Len(listing)
                             THEN next_page_token + k ELSE NoToken
                IN  /\ requests' = Append(requests,
                           PageRequestOf(maxResults, next_page_token, TRUE, items))
                    /\ videos' = videos \o items
                    /\ next_page_token' = token
                    /\ pc' = IF token = NoToken THEN "page_return" ELSE "page_request"
    /\ UNCHANGED pageFrame

\* Mutant of PageRequest: the loop ends after the first page, token or not.
PageRequest_OnePage ==
    /\ pc = "page_request"
    /\ Len(videos) < max_results
    /\ LET maxResults == Min(PageSize, max_results - Len(videos))
           listing == uploads[playlist_id]
           left == Len(listing) - next_page_token
       IN  \/ /\ requests' = Append(requests,
                      PageRequestOf(maxResults, next_page_token, FALSE, <<>>))
              /\ pc' = "page_except"
              /\ UNCHANGED <<videos, next_page_token>>
           \/ \E k \in (IF left = 0 THEN 0 ELSE 1)..Min(maxResults, left) :
                LET items == SubSeq(listing, next_page_token + 1, next_page_token + k)
                    token == IF next_page_token + k < Len(listing)
                             THEN next_page_token + k ELSE NoToken
                IN  /\ requests' = Append(requests,
                           PageRequestOf(maxResults, next_page_token, TRUE, items))
                    /\ videos' = videos \o items
                    /\ next_page_token' = token
                    /\ pc' = "page_return"
    /\ UNCHANGED pageFrame

\* Lines 133-146: one turn of the loop. The request asks for
\* min(50, max_results - len(videos)) items from the token on; execute() raises,
\* or answers with the next items of the listing (a page may be short) and a
\* token while items remain.
PageRequest ==
    /\ pc = "page_request"
    /\ Len(videos) < max_results
    /\ LET maxResults == Min(PageSize, max_results - Len(videos))
           listing == uploads[playlist_id]
           left == Len(listing) - next_page_token
       IN  \/ /\ requests' = Append(requests,
                      PageRequestOf(maxResults, next_page_token, FALSE, <<>>))
              /\ pc' = "page_except"
              /\ UNCHANGED <<videos, next_page_token>>
           \/ \E k \in (IF left = 0 THEN 0 ELSE 1)..Min(maxResults, left) :
                LET items == SubSeq(listing, next_page_token + 1, next_page_token + k)
                    token == IF next_page_token + k < Len(listing)
                             THEN next_page_token + k ELSE NoToken
                IN  /\ requests' = Append(requests,
                           PageRequestOf(maxResults, next_page_token, TRUE, items))
                    /\ videos' = videos \o items
                    /\ next_page_token' = token
                    /\ pc' = IF token = NoToken THEN "page_return" ELSE "page_request"
    /\ UNCHANGED pageFrame

\* Line 133: the loop ends when max_results items are collected.
PagesCollected ==
    /\ pc = "page_request"
    /\ ~(Len(videos) < max_results)
    /\ pc' = "page_return"
    /\ UNCHANGED <<pageFrame, videos, next_page_token, requests>>

\* Mutant of PagesExcept: the failed request is tried again.
PagesExcept_Retry ==
    /\ pc = "page_except"
    /\ pc' = "page_request"
    /\ UNCHANGED <<pageFrame, videos, next_page_token, requests>>

\* Lines 148-151: the exception is logged and the list is returned as it is.
PagesExcept ==
    /\ pc = "page_except"
    /\ pc' = "page_return"
    /\ UNCHANGED <<pageFrame, videos, next_page_token, requests>>

NextPages == PageRequest \/ PagesCollected \/ PagesExcept

SpecPages == InitPages /\ [][NextPages]_vars

\* ------------------------------------------------------------- save_data
\* The export of lines 361-424. A file is its name, whether its write was
\* completed, and its rows; a name is the kind of file and the timestamp.

\* Line 369: datetime.now().strftime("%Y%m%d_%H%M%S"), the second of the reading.
strftime(t) == t \div TicksPerSecond

FileName(kind, timestamp) == [kind |-> kind, timestamp |-> timestamp]
File(kind, timestamp, rows) ==
    [name |-> FileName(kind, timestamp), state |-> "ok", rows |-> rows]
\* A write that raised leaves the file opened for writing, without its rows.
CutFile(f) == [f EXCEPT !.state = "corrupt", !.rows = <<>>]

\* Lines 382-396: the video-level row (details stands for the fields copied
\* from the record one by one).
video_row(video) ==
    [channel_handle |-> video.channel_handle, video_id |-> video.video_id,
     details |-> video.details, transcript |-> video.transcript,
     comments_count |-> Len(video.comments)]

\* Lines 408-418: the comment-level row.
comment_row(video, comment) ==
    [video_id |-> video.video_id, channel_handle |-> video.channel_handle,
     comment_id |-> comment]

\* Lines 380-397.
csv_data(videos_data) == [k \in 1..Len(videos_data) |-> video_row(videos_data[k])]

\* Mutant of comments_data: one row per video that has comments, its first.
RECURSIVE comments_data_FirstOnly(_)
comments_data_FirstOnly(videos_data) ==
    IF videos_data = <<>> THEN <<>>
    ELSE LET video == videos_data[Len(videos_data)]
         IN  comments_data_FirstOnly(SubSeq(videos_data, 1, Len(videos_data) - 1))
               \o (IF video.comments = <<>> THEN <<>>
                   ELSE <<comment_row(video, video.comments[1])>>)

\* Lines 405-419: the comments of every video, video by video.
RECURSIVE comments_data(_)
comments_data(videos_data) ==
    IF videos_data = <<>> THEN <<>>
    ELSE LET video == videos_data[Len(videos_data)]
         IN  comments_data(SubSeq(videos_data, 1, Len(videos_data) - 1))
               \o [k \in 1..Len(video.comments) |-> comment_row(video, video.comments[k])]

\* The files a call writes, in the order it writes them (lines 371-424).
ExportPlan(videos_data, output_format, timestamp) ==
    (IF output_format \in {"json", "both"}
     THEN <<File("json", timestamp, videos_data)>> ELSE <<>>)
    \o (IF output_format \in {"csv", "both"}
        THEN <<File("csv", timestamp, csv_data(videos_data)),
               File("comments_csv", timestamp, comments_data(videos_data))>>
        ELSE <<>>)

\* Record lists handed to save_data: none, one record, two records of two
\* channels in both orders; a record with comments and one without transcript.
RecordA == VideoData(1, VideoId(1, 1), VideoId(1, 1), TranscriptText,
                     [k \in 1..MaxStream |-> k])
RecordB == VideoData(2, VideoId(2, 1), VideoId(2, 1), None, <<1>>)
RecordC == VideoData(2, VideoId(2, 2), VideoId(2, 2), TranscriptText, <<>>)
ExportInputs == {<<>>, <<RecordA>>, <<RecordA, RecordB>>, <<RecordB, RecordC, RecordA>>}

InitExport ==
    /\ Aside
    /\ NoCommentStream
    /\ NoPagination
    /\ NoExport
    /\ NoSharding
    /\ uploads = [c \in Channels |-> <<>>]
    /\ playlist_id = NoPlaylist
    /\ videos = NoVideos
    /\ comments = UnsetComments
    /\ pc = "done"

exportFrame == <<uploads, disk, runs, i, all_videos_data, channelLocals, videoLocals,
                 history, faults, args, commentStream, pagination, sharding>>

\* Lines 361-424: one call. The file names come from one reading of the clock;
\* each file is opened for writing (an existing file of that name is
\* replaced) and written; a write that raises ends the call (nothing in
\* save_data catches it) and the process.
SaveData ==
    /\ pc \in {"done", "stopped"}
    /\ Len(saves) < MaxSaves
    /\ \E videos_data \in ExportInputs, output_format \in {"json", "csv", "both"},
          failAt \in 0..3 :
         LET timestamp == strftime(now)
             plan == ExportPlan(videos_data, output_format, timestamp)
             written == IF failAt = 0 THEN plan
                        ELSE SubSeq(plan, 1, failAt - 1) \o <<CutFile(plan[failAt])>>
             names == {written[k].name : k \in 1..Len(written)}
         IN  /\ failAt <= Len(plan)
             /\ output_dir' = {f \in output_dir : f.name \notin names}
                                \cup {written[k] : k \in 1..Len(written)}
             /\ saves' = Append(saves, [timestamp |-> timestamp,
                                        output_format |-> output_format,
                                        videos_data |-> videos_data,
                                        files |-> written,
                                        raised |-> failAt # 0])
             /\ pc' = IF failAt = 0 THEN "done" ELSE "stopped"
    /\ UNCHANGED <<exportFrame, now>>

\* Time passes between two calls, or does not.
Tick ==
    /\ now < MaxClock
    /\ now' = now + 1
    /\ UNCHANGED <<exportFrame, pc, output_dir, saves>>

NextExport == SaveData \/ Tick

SpecExport == InitExport /\ [][NextExport]_vars

\* ------------------------------------------------------------- sharded harvest
\* The body of the channel loop (lines 259-357) run once per channel handle by
\* a worker of its own, the workers' steps interleaved in any order, all on
\* the one cache directory of line 61. The provider and the storage answer
\* every call with success, and no worker is terminated.

MaxShardUploads == 3    \* videos the provider lists for one channel

\* A handle is the sequence of its characters.
At == "@"
HandleA == <<At, "a">>
HandleB == <<At, "b">>
\* The handles a list may hold: the provider's, and one written without the
\* leading '@'.
HandleNames == {HandleA, <<"a">>, HandleB}

\* The provider's directory (forHandle, line 103): channel c has HandleOf[c],
\* and is found under it with or without the leading '@'.
HandleOf == [c \in Channels |-> IF c = 1 THEN HandleA ELSE HandleB]
ForHandle(channel_handle) ==
    {c \in Channels : HandleOf[c] \in {channel_handle, <<At>> \o channel_handle}}

\* Python's str.replace(old, new) for a one-character old: every occurrence
\* is replaced.
RECURSIVE replace(_, _, _)
replace(str, old, new) ==
    IF str = <<>> THEN <<>>
    ELSE (IF Head(str) = old THEN new ELSE <<Head(str)>>) \o replace(Tail(str), old, new)

\* Lines 263-264: f"{channel_handle.replace('@', '')}_videos.pkl" and
\* f"{channel_handle.replace('@', '')}_videos_list.json".
CacheFileName(channel_handle, suffix) == <<replace(channel_handle, At, <<>>), suffix>>

Pkl == "_videos.pkl"
ListJson == "_videos_list.json"
CacheFileNames == {CacheFileName(h, suffix) : h \in HandleNames, suffix \in {Pkl, ListJson}}

\* A file cut by open(..., 'w') and not written yet loads as nothing.
Cut == [state |-> "corrupt", data |-> <<>>]

\* The record of lines 327-341 of a video whose enrichment met no failure.
ShardVideoData(channel_handle, video_id) ==
    VideoData(channel_handle, video_id, video_id, TranscriptText,
              get_video_comments(MaxStream, MAX_COMMENTS_PER_VIDEO, 0))

\* A worker at line 259, its handle bound.
WorkerAt(channel_handle) ==
    [channel_handle |-> channel_handle, pc |-> "check_processed",
     playlist_id |-> NoPlaylist, videos |-> <<>>, j |-> 0,
     channel_videos_data |-> <<>>, result |-> <<>>]

\* The handle lists: NumChannels distinct handles, in any order.
HandleLists == {l \in [Channels -> HandleNames] :
                   \A a, b \in Channels : a # b => l[a] # l[b]}

InitShards ==
    /\ Aside
    /\ NoCommentStream
    /\ NoPagination
    /\ NoExport
    /\ pc = "stopped"
    /\ playlist_id = NoPlaylist
    /\ videos = NoVideos
    /\ comments = UnsetComments
    /\ \E f \in [Channels -> 0..MaxShardUploads] :
          uploads = [c \in Channels |-> Listing(c, f[c])]
    /\ cache_dir = [name \in CacheFileNames |-> Absent]
    /\ \E l \in HandleLists : workers = [w \in Channels |-> WorkerAt(l[w])]

shardFrame == <<uploads, disk, runs, pc, i, all_videos_data, channelLocals, videoLocals,
                history, faults, args, commentStream, pagination, export>>

\* Lines 266-275.
ShardCheckProcessedCache(w) ==
    LET self == workers[w]
        cached == cache_dir[CacheFileName(self.channel_handle, Pkl)]
    IN  /\ self.pc = "check_processed"
        /\ workers' = [workers EXCEPT ![w] =
              IF cached.state = "ok"
              THEN [self EXCEPT !.result = cached.data, !.pc = "done"]
              ELSE [self EXCEPT !.pc = "resolve_uploads"]]
        /\ UNCHANGED <<shardFrame, cache_dir>>

\* Lines 277-283.
ShardResolveUploads(w) ==
    LET self == workers[w]
        found == ForHandle(self.channel_handle)
    IN  /\ self.pc = "resolve_uploads"
        /\ workers' = [workers EXCEPT ![w] =
              IF found # {}
              THEN [self EXCEPT !.playlist_id = CHOOSE c \in found : TRUE,
                                !.pc = "check_discovery"]
              ELSE [self EXCEPT !.pc = "done"]]
        /\ UNCHANGED <<shardFrame, cache_dir>>

\* Lines 285-293 and 305-308.
ShardCheckDiscoveryCache(w) ==
    LET self == workers[w]
        cached == cache_dir[CacheFileName(self.channel_handle, ListJson)]
    IN  /\ self.pc = "check_discovery"
        /\ workers' = [workers EXCEPT ![w] =
              IF cached.state = "ok"
              THEN [self EXCEPT !.videos = cached.data, !.pc = "video_loop"]
              ELSE [self EXCEPT !.pc = "paginate"]]
        /\ UNCHANGED <<shardFrame, cache_dir>>

\* Lines 296-298.
ShardPaginate(w) ==
    LET self == workers[w]
    IN  /\ self.pc = "paginate"
        /\ workers' = [workers EXCEPT ![w] =
              [self EXCEPT !.videos = get_playlist_videos(uploads[self.playlist_id],
                                                          MAX_VIDEOS_PER_CHANNEL, 0),
                           !.pc = "open_discovery"]]
        /\ UNCHANGED <<shardFrame, cache_dir>>

\* Line 300: open(video_list_cache_file, 'w') cuts the file.
ShardOpenDiscoveryCache(w) ==
    LET self == workers[w]
    IN  /\ self.pc = "open_discovery"
        /\ cache_dir' = [cache_dir EXCEPT
                           ![CacheFileName(self.channel_handle, ListJson)] = Cut]
        /\ workers' = [workers EXCEPT ![w].pc = "dump_discovery"]
        /\ UNCHANGED shardFrame

\* Line 301: json.dump(videos, f).
ShardDumpDiscoveryCache(w) ==
    LET self == workers[w]
    IN  /\ self.pc = "dump_discovery"
        /\ cache_dir' = [cache_dir EXCEPT
                           ![CacheFileName(self.channel_handle, ListJson)] =
                               Loadable(self.videos)]
        /\ workers' = [workers EXCEPT ![w].pc = "video_loop"]
        /\ UNCHANGED shardFrame

\* Lines 310-346: the next stub is enriched and its record appended, the
\* checkpoint is due or not; after the last stub the channel's records are
\* the worker's result (line 357).
ShardEnrichVideo(w) ==
    LET self == workers[w]
    IN  /\ self.pc = "video_loop"
        /\ workers' = [workers EXCEPT ![w] =
              IF self.j < Len(self.videos)
              THEN [self EXCEPT
                      !.j = self.j + 1,
                      !.channel_videos_data =
                          Append(self.channel_videos_data,
                                 ShardVideoData(self.channel_handle,
                                                self.videos[self.j + 1])),
                      !.pc = IF CheckpointDue(self.j + 1, Len(self.videos))
                             THEN "open_processed" ELSE "video_loop"]
              ELSE [self EXCEPT !.result = self.channel_videos_data, !.pc = "done"]]
        /\ UNCHANGED <<shardFrame, cache_dir>>

\* Line 348: open(cache_file, 'wb') cuts the file.
ShardOpenProcessedCache(w) ==
    LET self == workers[w]
    IN  /\ self.pc = "open_processed"
        /\ cache_dir' = [cache_dir EXCEPT
                           ![CacheFileName(self.channel_handle, Pkl)] = Cut]
        /\ workers' = [workers EXCEPT ![w].pc = "dump_processed"]
        /\ UNCHANGED shardFrame

\* Line 349: pickle.dump(channel_videos_data, f).
ShardDumpProcessedCache(w) ==
    LET self == workers[w]
    IN  /\ self.pc = "dump_processed"
        /\ cache_dir' = [cache_dir EXCEPT
                           ![CacheFileName(self.channel_handle, Pkl)] =
                               Loadable(self.channel_videos_data)]
        /\ workers' = [workers EXCEPT ![w].pc = "video_loop"]
        /\ UNCHANGED shardFrame

NextShards ==
    \E w \in Channels :
        \/ ShardCheckProcessedCache(w)
        \/ ShardResolveUploads(w)
        \/ ShardCheckDiscoveryCache(w)
        \/ ShardPaginate(w)
        \/ ShardOpenDiscoveryCache(w)
        \/ ShardDumpDiscoveryCache(w)
        \/ ShardEnrichVideo(w)
        \/ ShardOpenProcessedCache(w)
        \/ ShardDumpProcessedCache(w)

SpecShards == InitShards /\ [][NextShards]_vars

\* ------------------------------------------------------------- views

Range(s) == {s[k] : k \in 1..Len(s)}
IdSeq(s) == [k \in 1..Len(s) |-> s[k].video_id]

\* The records of the result that belong to channel c.
Contributed(c) == SelectSeq(all_videos_data, LAMBDA r : r.channel_handle = c)

PerVideo == {"details", "transcript", "comments"}
CallsFor(c) ==
    {k \in calls : IF k.kind \in PerVideo THEN ChannelOf(k.target) = c ELSE k.target = c}

\* The outer loop is through with channel c in this run.
Visited(c) == pc = "done" \/ c < i \/ (c = i /\ pc = "loop")

NoWriteFault == \A k \in 1..Len(writes) : writes[k].ok

\* ------------------------------------------------------------- claims

\* C1: a channel whose processed cache exists and loads when the run reaches it
\* contributes exactly the cached records, in their order, and no adapter call
\* (uploads, listing, details, transcript, comments) is issued for it.
C1_CacheHitReplaysCache ==
    \A c \in Channels :
        startCache.processed[c].state = "ok" =>
            /\ CallsFor(c) = {}
            /\ Visited(c) => Contributed(c) = startCache.processed[c].data

C1_Witness ==
    /\ pc = "done"
    /\ \E c \in Channels :
          /\ startCache.processed[c].state = "ok"
          /\ Len(startCache.processed[c].data) >= 2
          /\ Contributed(c) = startCache.processed[c].data

\* C2 (refuted by the code): after a run terminated during a channel's
\* enrichment, the next run issues no per-video call for a video whose record
\* is in the channel's processed cache and fetches the details of every stub
\* of the channel that is missing from it. Stated for runs in which every
\* adapter call and every cache write succeeds.
CachedIds(c) ==
    IF startCache.processed[c].state = "ok"
    THEN Range(IdSeq(startCache.processed[c].data)) ELSE {}

ChannelStubs(c) ==
    IF startCache.discovery[c].state = "ok"
    THEN Range(startCache.discovery[c].data) ELSE {}

C2_RerunResumesChannel ==
    (pc = "done" /\ interrupted # NoInterrupt /\ faults = 0) =>
        LET c == interrupted
        IN  /\ \A k \in calls : k.kind \in PerVideo => k.target \notin CachedIds(c)
            /\ \A v \in ChannelStubs(c) \ CachedIds(c) : Call("details", v, TRUE) \in calls

\* The records assembled for the current channel that its processed cache
\* does not hold: what a termination now would lose.
Unsaved ==
    LET cached == IF cache_file[i].state = "ok" THEN Range(cache_file[i].data) ELSE {}
    IN  Cardinality({k \in 1..Len(channel_videos_data) :
                        channel_videos_data[k] \notin cached})

\* C3 (refuted by the code): a termination during a channel's enrichment loses
\* fewer records than one checkpoint interval, whatever the pattern of metadata
\* successes and failures. Stated at the pacing delay between two videos, with
\* every cache write of the channel having succeeded.
C3_LossBelowOneInterval ==
    (pc = "video_loop" /\ NoWriteFault) => Unsaved < CheckpointEvery

\* C4 (refuted by the code): when a channel's enrichment loop ends with at
\* least one record assembled, the channel's processed cache holds exactly the
\* channel's result set, whichever stubs' metadata fetches failed. Stated with
\* every cache write of the channel having succeeded.
C4_FinalCheckpoint ==
    (pc = "extend" /\ channel_videos_data # <<>> /\ NoWriteFault) =>
        cache_file[i] = Loadable(channel_videos_data)

\* C5: when every stub of a channel of K stubs is enriched, the processed cache
\* is written after the stubs at positions N, 2N, ... and K and at no other
\* point, ceil(K/N) times in all (N = 2, K = 5: after 2, 4 and 5), and each
\* write holds all the records assembled so far.
ProcessedWrites == SelectSeq(writes, LAMBDA w : w.file = "processed")

ExpectedPositions(K) ==
    [k \in 1..((K + CheckpointEvery - 1) \div CheckpointEvery) |->
        Min(k * CheckpointEvery, K)]

C5_CheckpointPositions ==
    (pc = "extend" /\ Len(channel_videos_data) = Len(videos)) =>
        /\ [k \in 1..Len(ProcessedWrites) |-> ProcessedWrites[k].pos]
              = ExpectedPositions(Len(videos))
        /\ \A k \in 1..Len(ProcessedWrites) :
              ProcessedWrites[k].data
                = SubSeq(channel_videos_data, 1, ProcessedWrites[k].pos)

C5_Witness ==
    /\ pc = "extend"
    /\ Len(videos) = 5
    /\ Len(channel_videos_data) = 5
    /\ [k \in 1..Len(ProcessedWrites) |-> ProcessedWrites[k].pos] = <<2, 4, 5>>
    /\ cache_file[i] = Loadable(channel_videos_data)

\* The stubs of channel c whose metadata fetch succeeded in this run.
MetaOk(c) ==
    {k.target : k \in {x \in calls : x.kind = "details" /\ x.ok /\ ChannelOf(x.target) = c}}

\* Channel c went through the harvest in this run (no processed cache served it).
Harvested(c) == Visited(c) /\ startCache.processed[c].state # "ok"

\* C6: the result of a channel holds exactly one record for each stub whose
\* metadata fetch succeeded, in stub order, and none for a stub whose fetch
\* failed (stub order is ascending identifier order in the listings).
C6_OneRecordPerFetchedStub ==
    /\ pc = "extend" =>
          IdSeq(channel_videos_data) = SelectSeq(videos, LAMBDA v : v \in MetaOk(i))
    /\ \A c \in Channels :
          Harvested(c) =>
              LET ids == IdSeq(Contributed(c))
              IN  /\ Range(ids) = MetaOk(c)
                  /\ \A a, b \in 1..Len(ids) : a < b => ids[a] < ids[b]

C6_Witness ==
    /\ pc = "done"
    /\ \E c \in Channels :
          /\ Len(uploads[c]) = 3
          /\ Call("details", VideoId(c, 2), FALSE) \in calls
          /\ IdSeq(Contributed(c)) = <<VideoId(c, 1), VideoId(c, 3)>>

\* C7: whatever the adapters and the file operations answer, the call never
\* leaves by an exception, a run that is not terminated returns, and at the
\* return every channel of the list has been visited and every record
\* assembled in the run is in the result.
C7_RunReturnsWithEverything ==
    /\ [](pc # "raised")
    /\ [](pc = "done" =>
             /\ i = NumChannels
             /\ assembled \subseteq Range(all_videos_data))
    /\ ((pc = "loop" /\ i = 0) ~> (pc \in {"done", "stopped"}))

C7_Witness ==
    /\ pc = "done"
    /\ \E v \in MetaOk(2) : Call("details", v + 1, FALSE) \in calls
    /\ Contributed(1) # <<>>
    /\ assembled # {}
    /\ assembled \subseteq Range(all_videos_data)

\* C8: a cache file that exists and does not load is a cache miss. With an
\* unreadable processed cache the channel goes on to the uploads resolution
\* and its records are the ones assembled in this run; nothing of an
\* unreadable file is ever in the result. With an unreadable discovery cache
\* the listing is fetched again and written over the file.
ReachedDiscovery(c) ==
    /\ Call("uploads", c, TRUE) \in calls
    /\ c = i => pc # "check_discovery"

DiscoveryWrites == SelectSeq(writes, LAMBDA w : w.file = "discovery")

C8_CorruptCacheIsAMiss ==
    /\ Garbage \notin Range(all_videos_data) \cup Range(channel_videos_data)
    /\ \A c \in Channels :
          /\ (startCache.processed[c].state = "corrupt"
                 /\ (Visited(c) \/ (c = i /\ pc \notin {"check_processed", "resolve_uploads"})))
              => /\ \E k \in calls : k.kind = "uploads" /\ k.target = c
                 /\ Range(Contributed(c)) \subseteq assembled
          /\ (startCache.discovery[c].state = "corrupt" /\ ReachedDiscovery(c))
              => /\ \/ c = i /\ pc = "paginate"
                    \/ \E k \in calls : k.kind = "listing" /\ k.target = c
                 /\ (c = i /\ pc \notin {"paginate", "open_discovery", "dump_discovery"})
                    => /\ Len(DiscoveryWrites) = 1
                       /\ DiscoveryWrites[1].stubs = videos
                       /\ DiscoveryWrites[1].ok
                            => video_list_cache_file[c] = Loadable(videos)

C8_Witness ==
    /\ pc = "done"
    /\ \E c \in Channels :
          /\ startCache.processed[c].state = "corrupt"
          /\ startCache.discovery[c].state = "corrupt"
          /\ Contributed(c) # <<>>
          /\ video_list_cache_file[c] = Loadable(uploads[c])

\* C9: a channel whose uploads resolution fails contributes no record, gets no
\* listing and no per-video call, and the channels after it are processed.
ResolveFailed(c) == Call("uploads", c, FALSE) \in calls

C9_ResolveFailureSkipsOneChannel ==
    \A c \in Channels :
        ResolveFailed(c) =>
            /\ CallsFor(c) = {Call("uploads", c, FALSE)}
            /\ Contributed(c) = <<>>
            /\ c = i => pc \in {"loop", "done"}
            /\ pc = "done" =>
                  \A d \in Channels :
                      d > c => \/ Contributed(d) = startCache.processed[d].data
                                  /\ startCache.processed[d].state = "ok"
                               \/ \E k \in calls : k.kind = "uploads" /\ k.target = d

C9_Witness ==
    /\ pc = "done"
    /\ ResolveFailed(1)
    /\ Call("uploads", 2, TRUE) \in calls
    /\ Len(Contributed(2)) >= 2

\* C10: every record a loadable processed cache holds is complete: identifier,
\* channel, metadata and comments are set, the transcript is a text or the
\* explicit null. This holds in every state, those left by a termination in
\* the middle of an enrichment or of a checkpoint write included.
Complete(r, c) ==
    /\ r.channel_handle = c
    /\ r.video_id \in Range(uploads[c])
    /\ r.details = r.video_id
    /\ r.transcript \in {TranscriptText, None}
    /\ r.comments \in {[k \in 1..n |-> k] : n \in 0..MAX_COMMENTS_PER_VIDEO}

C10_CachedRecordsAreComplete ==
    \A c \in Channels :
        cache_file[c].state = "ok" =>
            \A k \in 1..Len(cache_file[c].data) : Complete(cache_file[c].data[k], c)

C10_Witness ==
    /\ pc = "stopped"
    /\ interrupted # NoInterrupt
    /\ cache_file[interrupted].state = "ok"
    /\ Len(cache_file[interrupted].data) >= 2
    /\ Len(cache_file[interrupted].data) < Len(video_list_cache_file[interrupted].data)

\* The identifiers a cache file on disk holds now; a file that is absent or
\* does not load holds none.
ProcessedIds(c) ==
    IF cache_file[c].state = "ok" THEN Range(IdSeq(cache_file[c].data)) ELSE {}

DiscoveryIds(c) ==
    IF video_list_cache_file[c].state = "ok"
    THEN Range(video_list_cache_file[c].data) ELSE {}

\* C11 (refuted by the code): in every reachable state and for every channel,
\* the video identifiers in the channel's processed cache are a subset of the
\* video identifiers in the channel's discovery cache.
C11_ProcessedWithinDiscovery ==
    \A c \in Channels : ProcessedIds(c) \subseteq DiscoveryIds(c)

\* C13 (refuted by the code): when a call of fetch_and_process_channel_videos
\* returns, its result holds at most max_videos_per_channel records of every
\* channel, whatever the two caches of the channel held when the call started.
C13_AtMostMaxVideosPerChannel ==
    pc = "done" =>
        \A c \in Channels : Len(Contributed(c)) <= max_videos_per_channel

\* What the stream of the call can deliver before it ends or raises.
Deliverable ==
    LET g == comment_generator
        upto == IF g.offer = Endless THEN max_comments ELSE g.offer
    IN  IF g.failAt # 0 /\ g.failAt <= upto + 1 THEN g.failAt - 1 ELSE upto

\* C12: the comments a call of get_video_comments collects are never more than
\* max_comments, however many the stream offers (a stream that never ends
\* included), and they are the first comments of the stream in the order the
\* stream gave them; the call returns min(max_comments, what the stream
\* delivers) of them, which is the list the harvest puts in the record.
C12_CommentsCappedInOrder ==
    pc \in {"islice", "comments_except", "comments_return"} =>
        /\ Len(comments) <= max_comments
        /\ comments = [k \in 1..Len(comments) |-> k]
        /\ pc = "comments_return" =>
              /\ Len(comments) = Min(max_comments, Deliverable)
              /\ comments = get_video_comments(
                               IF comment_generator.offer = Endless
                               THEN max_comments ELSE comment_generator.offer,
                               max_comments, comment_generator.failAt)

C12_Witness ==
    /\ pc = "comments_return"
    /\ comment_generator = [offer |-> Endless, failAt |-> 0]
    /\ max_comments = 2
    /\ comments = <<1, 2>>

\* The items of the pages a sequence of requests was answered with.
RECURSIVE ItemsOf(_)
ItemsOf(rs) ==
    IF rs = <<>> THEN <<>>
    ELSE ItemsOf(SubSeq(rs, 1, Len(rs) - 1)) \o rs[Len(rs)].items

Paging == pc \in {"page_request", "page_except", "page_return"}
PageFailed == \E k \in 1..Len(requests) : ~requests[k].ok
\* The page whose request raised (0: none did).
FailPage == IF PageFailed THEN CHOOSE k \in 1..Len(requests) : ~requests[k].ok ELSE 0
\* Every page held as many items as were asked for, or the rest of the listing.
FullPages ==
    \A k \in 1..Len(requests) :
        requests[k].ok =>
            Len(requests[k].items)
              = Min(requests[k].maxResults, Len(uploads[playlist_id]) - requests[k].pageToken)

\* C14: a call asking for N items of a listing that offers M < N, with no
\* request failing, returns exactly the M items of the listing in the
\* listing's order, after at most one request per item (one for an empty
\* listing); it is the list the harvest takes as the channel's stubs.
C14_ShortListingReturnedWhole ==
    (Paging /\ Len(uploads[playlist_id]) < max_results /\ ~PageFailed) =>
        /\ Len(requests) <= IF uploads[playlist_id] = <<>> THEN 1 ELSE Len(uploads[playlist_id])
        /\ pc # "page_except"
        /\ pc = "page_return" =>
              /\ videos = uploads[playlist_id]
              /\ FullPages => videos = get_playlist_videos(uploads[playlist_id], max_results, 0)

C14_Witness ==
    /\ pc = "page_return"
    /\ Len(uploads[playlist_id]) = 3
    /\ max_results = 5
    /\ Len(requests) = 2
    /\ videos = uploads[playlist_id]

\* C15: a call never holds more than max_results items, and every request
\* asks for min(page size, max_results - items collected so far); when the
\* listing has at least max_results items and no request fails, the call
\* returns the first max_results of them.
C15_NeverMoreThanTarget ==
    Paging =>
        /\ Len(videos) <= max_results
        /\ \A k \in 1..Len(requests) :
              requests[k].maxResults
                = Min(PageSize, max_results - Len(ItemsOf(SubSeq(requests, 1, k - 1))))
        /\ (pc = "page_return" /\ ~PageFailed /\ Len(uploads[playlist_id]) >= max_results) =>
              /\ videos = SubSeq(uploads[playlist_id], 1, max_results)
              /\ FullPages => videos = get_playlist_videos(uploads[playlist_id], max_results, 0)

C15_Witness ==
    /\ pc = "page_return"
    /\ Len(uploads[playlist_id]) = 6
    /\ max_results = 3
    /\ [k \in 1..Len(requests) |-> requests[k].maxResults] = <<2, 1>>
    /\ Len(videos) = 3

\* C16: once a page request has failed, the call issues no other request, does
\* not raise, and returns exactly the items of the pages answered before the
\* failure, in order; it is the list the harvest takes as the channel's stubs.
C16_PageFailureStopsPaging ==
    (Paging /\ PageFailed) =>
        /\ FailPage = Len(requests)
        /\ pc \in {"page_except", "page_return"}
        /\ videos = ItemsOf(SubSeq(requests, 1, FailPage - 1))
        /\ (pc = "page_return" /\ FullPages) =>
              videos = get_playlist_videos(uploads[playlist_id], max_results, FailPage)

C16_Witness ==
    /\ pc = "page_return"
    /\ max_results = 5
    /\ Len(uploads[playlist_id]) = 5
    /\ Len(requests) = 2
    /\ ~requests[2].ok
    /\ videos = SubSeq(uploads[playlist_id], 1, 2)

\* The videos whose transcript fetch returned None in this run.
NoTranscript == {k.target : k \in {x \in calls : x.kind = "transcript" /\ ~x.ok}}

\* The records held for video v: in the result, or in the list of the channel
\* being enriched.
RecordsOf(v) ==
    {r \in Range(all_videos_data) \cup Range(channel_videos_data) : r.video_id = v}

\* C17: a video whose metadata was fetched and whose transcript fetch returned
\* None is not skipped: its comments are fetched and, once its record is
\* assembled, the channel's list (then the result) holds exactly one record of
\* it, with all fields set and the transcript None.
C17_NoTranscriptStillARecord ==
    \A v \in NoTranscript :
        /\ Call("details", v, TRUE) \in calls
        /\ IF ChannelOf(v) = i /\ pc \in {"comments", "assemble"} /\ videos[j] = v
           THEN transcript = None /\ RecordsOf(v) = {}
           ELSE /\ Call("comments", v, TRUE) \in calls
                /\ \E r \in RecordsOf(v) :
                      /\ RecordsOf(v) = {r}
                      /\ r.transcript = None
                      /\ r.details = v
                      /\ r.channel_handle = ChannelOf(v)
                      /\ r.comments # UnsetComments
                /\ pc = "done" => \E k \in 1..Len(all_videos_data) :
                                      /\ all_videos_data[k].video_id = v
                                      /\ all_videos_data[k].transcript = None

C17_Witness ==
    /\ pc = "done"
    /\ \E k \in 1..Len(all_videos_data) :
          /\ all_videos_data[k].transcript = None
          /\ all_videos_data[k].video_id \in NoTranscript
          /\ k < Len(all_videos_data)

Listed(c) == \E k \in calls : k.kind = "listing" /\ k.target = c

\* The stub list of the current channel is settled: the loop over it runs or
\* has ended.
StubsSettled == Enriching \/ pc = "extend"

\* C20: a channel without usable processed cache whose discovery cache loads
\* is enriched from exactly the cached list: no listing is requested for it
\* and its discovery cache is not written. The listing is requested only for
\* a channel whose processed cache and discovery cache are both unusable, and
\* then its result is the stub list and is written, once, to the discovery
\* cache.
C20_DiscoveryCachePreferred ==
    \A c \in Channels :
        /\ Listed(c) => /\ startCache.processed[c].state # "ok"
                        /\ startCache.discovery[c].state # "ok"
        /\ startCache.discovery[c].state = "ok" =>
              video_list_cache_file[c] = startCache.discovery[c]
        /\ (c = i /\ StubsSettled) =>
              IF startCache.discovery[c].state = "ok"
              THEN /\ videos = startCache.discovery[c].data
                   /\ DiscoveryWrites = <<>>
              ELSE /\ Listed(c)
                   /\ Len(DiscoveryWrites) = 1
                   /\ DiscoveryWrites[1].stubs = videos
                   /\ DiscoveryWrites[1].ok => video_list_cache_file[c] = Loadable(videos)

C20_Witness ==
    /\ pc = "done"
    /\ \E c \in Channels :
          /\ startCache.processed[c].state # "ok"
          /\ startCache.discovery[c].state = "ok"
          /\ Len(startCache.discovery[c].data) >= 2
          /\ ~Listed(c)
          /\ IdSeq(Contributed(c)) = startCache.discovery[c].data

\* The names a call of save_data wrote to.
SaveNames(k) == {saves[k].files[n].name : n \in 1..Len(saves[k].files)}

\* C18 (refuted by the code): of any two calls of save_data, the later one
\* writes to no file name the earlier one wrote to, and the files of the
\* earlier one are in the output directory as it wrote them.
C18_ExportsNeverOverwritten ==
    \A k, m \in 1..Len(saves) :
        k < m =>
            /\ SaveNames(k) \cap SaveNames(m) = {}
            /\ \A n \in 1..Len(saves[k].files) : saves[k].files[n] \in output_dir

\* The call returned and wrote the two tabular files.
Tabular(k) == saves[k].output_format \in {"csv", "both"} /\ ~saves[k].raised

\* The rows of the file of a kind that call k wrote.
RowsOf(k, kind) ==
    LET n == CHOOSE n \in 1..Len(saves[k].files) : saves[k].files[n].name.kind = kind
    IN  saves[k].files[n].rows

\* The comments of the records before the a-th.
RECURSIVE CommentsBefore(_, _)
CommentsBefore(d, a) ==
    IF a <= 1 THEN 0 ELSE CommentsBefore(d, a - 1) + Len(d[a - 1].comments)

\* C19: a call of save_data with a tabular format that returns writes one
\* video-level row per record, in the records' order, and one comment-level
\* row per comment of every record, record by record in the comments' order;
\* two such calls with the same records write the same rows in the same
\* order, whatever the clock reads, and only the file names may differ.
C19_ExportIdempotent ==
    \A k \in 1..Len(saves) :
        Tabular(k) =>
            LET d == saves[k].videos_data
                v == RowsOf(k, "csv")
                c == RowsOf(k, "comments_csv")
            IN  /\ Len(v) = Len(d)
                /\ Len(c) = CommentsBefore(d, Len(d) + 1)
                /\ \A a \in 1..Len(d) :
                      /\ v[a].video_id = d[a].video_id
                      /\ v[a].channel_handle = d[a].channel_handle
                      /\ v[a].transcript = d[a].transcript
                      /\ v[a].comments_count = Len(d[a].comments)
                      /\ \A b \in 1..Len(d[a].comments) :
                            c[CommentsBefore(d, a) + b]
                              = [video_id |-> d[a].video_id,
                                 channel_handle |-> d[a].channel_handle,
                                 comment_id |-> d[a].comments[b]]
                /\ \A m \in 1..Len(saves) :
                      (Tabular(m) /\ saves[m].videos_data = d) =>
                          /\ RowsOf(m, "csv") = v
                          /\ RowsOf(m, "comments_csv") = c
                /\ (\A m \in 1..Len(saves) :
                        m > k => saves[m].timestamp # saves[k].timestamp) =>
                      /\ File("csv", saves[k].timestamp, v) \in output_dir
                      /\ File("comments_csv", saves[k].timestamp, c) \in output_dir

C19_Witness ==
    /\ Len(saves) = 2
    /\ Tabular(1) /\ Tabular(2)
    /\ saves[1].timestamp # saves[2].timestamp
    /\ saves[1].videos_data = <<RecordB, RecordC, RecordA>>
    /\ saves[2].videos_data = saves[1].videos_data
    /\ Len(RowsOf(2, "comments_csv")) = 1 + MaxStream
    /\ RowsOf(1, "comments_csv") = RowsOf(2, "comments_csv")

\* ------------------------------------------------------------- C21

\* The channel loop run for one handle on the directory dir, from line 259 to
\* line 357, with every call answered with success: the channel's records and
\* the directory it leaves.
SequentialChannel(channel_handle, dir) ==
    LET pkl == CacheFileName(channel_handle, Pkl)
        list == CacheFileName(channel_handle, ListJson)
        found == ForHandle(channel_handle)
    IN  IF dir[pkl].state = "ok" THEN [result |-> dir[pkl].data, dir |-> dir]
        ELSE IF found = {} THEN [result |-> <<>>, dir |-> dir]
        ELSE LET stubs == IF dir[list].state = "ok" THEN dir[list].data
                          ELSE get_playlist_videos(uploads[CHOOSE c \in found : TRUE],
                                                   MAX_VIDEOS_PER_CHANNEL, 0)
                 records == [k \in 1..Len(stubs) |->
                                ShardVideoData(channel_handle, stubs[k])]
                 listed == [dir EXCEPT ![list] = Loadable(stubs)]
             IN  [result |-> records,
                  dir |-> IF stubs = <<>> THEN listed
                          ELSE [listed EXCEPT ![pkl] = Loadable(records)]]

\* The handles of the workers harvested one after the other, in the order of
\* the list, from handle k on.
RECURSIVE Sequential(_, _, _)
Sequential(k, dir, results) ==
    IF k > NumChannels THEN [results |-> results, dir |-> dir]
    ELSE LET channel == SequentialChannel(workers[k].channel_handle, dir)
         IN  Sequential(k + 1, channel.dir, Append(results, channel.result))

AllWorkersDone == \A w \in Channels : workers[w].pc = "done"

\* C21: whatever the list of distinct handles and however the steps of the
\* channels' workers interleave, when all workers are done the cache
\* directory holds what the sequential harvest of the list leaves and every
\* channel's result is its result in the sequential harvest.
C21_ShardedAsSequential ==
    AllWorkersDone =>
        LET sequential == Sequential(1, [name \in CacheFileNames |-> Absent], <<>>)
        IN  /\ cache_dir = sequential.dir
            /\ \A w \in Channels : workers[w].result = sequential.results[w]

\* ------------------------------------------------------------- C22

\* A stub list of channel c that ends before the listing does: the request of
\* one of its pages failed (max_videos_per_channel is not below the listing's
\* length in these runs).
CutShort(stubs, c) == Len(stubs) < Min(Len(uploads[c]), max_videos_per_channel)

\* The stubs of channel c that a list does not hold.
Missed(stubs, c) == Range(uploads[c]) \ Range(stubs)

\* The run found, for channel c, no processed cache that loads and a
\* discovery cache that loads and holds a list cut short.
FoundCutList(c) ==
    /\ startCache.processed[c].state # "ok"
    /\ startCache.discovery[c].state = "ok"
    /\ CutShort(startCache.discovery[c].data, c)

\* C22: (1) a stub list cut short by a failed page request, the empty list
\* of a failed first page included, is written to the discovery cache like
\* any list: once, and the file then holds exactly that list; (2) a run that
\* finds such a list in the discovery cache and no processed cache that
\* loads requests no listing for the channel, leaves the file as it is,
\* enriches the cached list, and neither calls an adapter for a stub the list
\* misses nor returns a record of one.
C22_CutListPersistedAndReused ==
    /\ (pc \in {"video_loop", "details", "transcript", "comments", "assemble",
                 "open_processed", "dump_processed", "extend"}
           /\ Listed(i) /\ CutShort(videos, i))
        => /\ Len(DiscoveryWrites) = 1
           /\ DiscoveryWrites[1].stubs = videos
           /\ DiscoveryWrites[1].ok => video_list_cache_file[i] = Loadable(videos)
    /\ \A c \in Channels :
          FoundCutList(c) =>
             /\ ~Listed(c)
             /\ video_list_cache_file[c] = startCache.discovery[c]
             /\ (c = i /\ StubsSettled) => videos = startCache.discovery[c].data
             /\ \A v \in Missed(startCache.discovery[c].data, c) :
                   /\ \A k \in calls : k.kind \in PerVideo => k.target # v
                   /\ \A r \in Range(all_videos_data) \cup Range(channel_videos_data) :
                         r.video_id # v
             /\ Visited(c) /\ Call("uploads", c, TRUE) \in calls
                   => Range(IdSeq(Contributed(c))) \subseteq
                          Range(startCache.discovery[c].data)

\* A second run returned after enriching a channel from the non-empty list
\* that a failed page request of the first run cut short.
C22_Witness ==
    /\ pc = "done"
    /\ runs >= 2
    /\ \E c \in Channels :
          /\ FoundCutList(c)
          /\ startCache.discovery[c].data # <<>>
          /\ Missed(startCache.discovery[c].data, c) # {}
          /\ IdSeq(Contributed(c)) = startCache.discovery[c].data

\* ------------------------------------------------------------- C23

\* The stream of the current video raises at a pull that islice makes: its
\* failAt-th, after failAt - 1 comments were pulled.
StreamRaises ==
    /\ comment_generator.failAt \in 1..max_comments
    /\ comment_generator.offer # Endless
          => comment_generator.failAt <= comment_generator.offer + 1

\* The comments pulled before the failure, in the order of the stream.
PulledBeforeFailure == [k \in 1..(comment_generator.failAt - 1) |-> k]

\* The call of get_video_comments for the current video is over and its
\* stream raised.
CommentsCallFailed ==
    /\ StreamRaises
    /\ comments # UnsetComments
    /\ pc \in {"comments_return", "assemble", "open_processed", "dump_processed",
               "video_loop"}

\* The record of the current video was appended.
RecordAppended ==
    /\ comments # UnsetComments
    /\ pc \in {"open_processed", "dump_processed", "video_loop"}

\* A call whose stream raised returns the comments pulled before, and the
\* record appended for the video holds them.
PulledKept ==
    /\ pc = "comments_except" =>
          /\ StreamRaises
          /\ comments = PulledBeforeFailure
    /\ CommentsCallFailed =>
          /\ comments = PulledBeforeFailure
          /\ video_details = videos[j]
    /\ (CommentsCallFailed /\ RecordAppended) =>
          /\ channel_videos_data # <<>>
          /\ channel_videos_data[Len(channel_videos_data)] =
                 VideoData(i, videos[j], videos[j], transcript, PulledBeforeFailure)
          /\ channel_videos_data[Len(channel_videos_data)] \in assembled

\* The steps from the failure to the appended record.
FailureHandledInPlace ==
    /\ pc = "comments_except" => pc' = "comments_return"
    /\ (pc = "comments_return" /\ StreamRaises) => pc' = "assemble"
    /\ (pc \in {"comments_except", "comments_return"} /\ StreamRaises) =>
          /\ <<i, j, videos, channel_videos_data, all_videos_data>>' =
                <<i, j, videos, channel_videos_data, all_videos_data>>
          /\ comments' = comments
    /\ (pc = "assemble" /\ StreamRaises) =>
          /\ channel_videos_data' =
                Append(channel_videos_data,
                       VideoData(i, videos[j], videos[j], transcript,
                                 PulledBeforeFailure))
          /\ <<i, j, videos>>' = <<i, j, videos>>

\* C23: when the comment stream of a video raises, at its first pull or after
\* k comments, the call returns exactly the k comments pulled before, in the
\* stream's order; the video's record is assembled with them and appended to
\* the channel's records; and handling the failure and returning leave the
\* channel, the stub list and the stub where they are and lead to the
\* assembly of the record.
C23_StreamFailureKeepsPulled ==
    /\ [](PulledKept)
    /\ [][FailureHandledInPlace]_vars

\* The stream of a video raised at its second pull, and the video's record,
\* holding the one comment pulled, is the last of the channel's records.
C23_Witness ==
    /\ CommentsCallFailed
    /\ RecordAppended
    /\ comment_generator.failAt = 2
    /\ channel_videos_data # <<>>
    /\ channel_videos_data[Len(channel_videos_data)].video_id = videos[j]
    /\ channel_videos_data[Len(channel_videos_data)].comments = <<1>>

====
